---- MODULE Spec2Model ----
(***************************************************************************)
(* ArduPilotManager: the supervisor of one autopilot process, its          *)
(* background auto_restart thread, and the registry of MAVLink endpoints   *)
(* mirrored to the mavlink proxy.                                          *)
(*                                                                         *)
(* Two threads act on the shared fields of the Manager: "fg", the caller   *)
(* of the public operations, and "bg", the daemon thread running           *)
(* auto_restart.  Each thread steps through the statements of the method   *)
(* it runs (pc); the steps of the two threads interleave freely, as the    *)
(* code takes no lock.  A step is one access to the shared state together  *)
(* with the thread's own computation around it; the locals of a method are *)
(* cleared when it is left.                                                *)
(***************************************************************************)
EXTENDS Integers, Sequences, FiniteSets, TLC

\* Number of autopilot processes the process table holds at once.
MaxPids == 2

\* Length of the longest list of detected boards passed to start_board.
MaxBoards == 2

\* range(10) in terminate_ardupilot_subprocess.
PollAttempts == 10

Threads == {"fg", "bg"}

Platform == {"Undefined", "SITL", "Navigator", "Pixhawk1"}

\* SITLFrame: UNDEFINED, the default VECTORED and one other frame.
SITLFrame == {"UNDEFINED", "VECTORED", "QUAD"}

\* The board types named by start_board and by the enumeration.
FlightControllerType == {"Serial", "Navigator", "NavigatorR3", "NavigatorR4"}

\* Results of BoardDetector.detect(): lists of detected board types.
DetectedBoards ==
    { <<>>, <<"Navigator">>, <<"Serial">>, <<"NavigatorR3">>,
      <<"Navigator", "Serial">>, <<"NavigatorR4", "Navigator">> }

\* The lists start_board is called with: every list up to MaxBoards boards.
BoardLists ==
    UNION { [1..n -> FlightControllerType] : n \in 0..MaxBoards }

\* Endpoints: the two protected defaults of start_mavlink_manager and two
\* endpoints of an external caller.
GCSLink == [name |-> "GCS Link", protected |-> TRUE, persistent |-> FALSE]

MAVLink2Rest == [name |-> "MAVLink2Rest", protected |-> TRUE, persistent |-> FALSE]

\* The master endpoint of a platform start: the link to the autopilot itself.
Master == [name |-> "Master", protected |-> TRUE, persistent |-> FALSE]

UserA == [name |-> "UserA", protected |-> FALSE, persistent |-> TRUE]

UserB == [name |-> "UserB", protected |-> FALSE, persistent |-> FALSE]

Endpoints == {GCSLink, MAVLink2Rest, UserA, UserB}

\* The sets an external caller passes to add_new_endpoints / remove_endpoints.
EndpointSets ==
    { {UserA}, {UserB}, {UserA, UserB}, {GCSLink}, {GCSLink, UserB} }

VARIABLES
    current_platform,     \* self._current_platform
    current_sitl_frame,   \* self._current_sitl_frame
    subprocess,           \* self.subprocess: 0 is None, else the pid of the handle
    should_be_running,    \* self.should_be_running
    procs,                \* the OS process table
    mav_endpoints,        \* mavlink_manager.endpoints(): the live set
    mav_master,           \* the proxy's master endpoint, {} when none is set
    mav_running,          \* whether the proxy is started
    configuration,        \* self.configuration["endpoints"]
    settings_content,     \* the endpoints of the saved settings file
    pc,                   \* the statement each thread is at
    fg_op,                \* the public operation the caller runs or ran last
    fg_arg,               \* its argument: endpoints, boards or a frame
    fg_result,            \* how the call ended
    subprocess_stopped,   \* auto_restart's local
    polls,                \* terminate_ardupilot_subprocess's loop counter
    prune_list,           \* the processes prune_ardupilot_processes still has to kill
    disarmed              \* whether disarm_vehicle returned in the current kill_ardupilot

vars ==
    << current_platform, current_sitl_frame, subprocess, should_be_running, procs,
       mav_endpoints, mav_master, mav_running, configuration, settings_content,
       pc, fg_op, fg_arg, fg_result, subprocess_stopped,
       polls, prune_list, disarmed >>

manager == << current_platform, current_sitl_frame, subprocess, should_be_running >>

proxy == << mav_endpoints, mav_master, mav_running >>

settings == << configuration, settings_content >>

\* The locals of kill_ardupilot and the methods it calls.
kill_locals == << polls, prune_list, disarmed >>

caller == << fg_op, fg_arg >>

Pids == 1..MaxPids

NoProcess == [st |-> "free", path |-> "Undefined", by |-> "none"]

\* A process that exited: only its exit is still of interest.
ExitedProcess == [st |-> "dead", path |-> "Undefined", by |-> "none"]

FreePids == {p \in Pids : procs[p].st = "free"}

Alive == {p \in Pids : procs[p].st = "alive"}

\* The processes this Manager spawned that are alive.
SpawnedAlive == {p \in Alive : procs[p].by \in Threads}

Min(S) == CHOOSE x \in S : \A y \in S : x <= y

\* subprocess.poll() is not None
Exited(p) == procs[p].st = "dead"

\* The process table pr without the exited processes nothing refers to: the
\* handle and the scan of a running prune keep theirs.
Reaped(pr, handle, scan) ==
    [p \in Pids |-> IF pr[p].st = "dead" /\ p # handle /\ p \notin scan
                    THEN NoProcess
                    ELSE pr[p]]

\* running_ardupilot_processes(): the processes whose command line holds the
\* firmware path of the current platform.
running_ardupilot_processes ==
    {p \in Alive : procs[p].path = current_platform}

----------------------------------------------------------------------------
(* Control: a step to the next statement, a raise, a return.               *)

Goto(t, label) ==
    /\ pc' = [pc EXCEPT ![t] = label]
    /\ fg_result' = IF t = "fg" THEN "running" ELSE fg_result

\* An exception leaving the running operation: the caller gets it; in the
\* daemon thread it leaves auto_restart, whose loop has no handler.
Raise(t, error) ==
    IF t = "fg"
    THEN /\ pc' = [pc EXCEPT !["fg"] = "idle"]
         /\ fg_result' = error
    ELSE /\ pc' = [pc EXCEPT !["bg"] = "dead"]
         /\ UNCHANGED fg_result

\* The operation returns: to the caller, or to auto_restart's sleep and next tick.
Return(t) ==
    IF t = "fg"
    THEN /\ pc' = [pc EXCEPT !["fg"] = "idle"]
         /\ fg_result' = "ok"
    ELSE /\ pc' = [pc EXCEPT !["bg"] = "tick"]
         /\ UNCHANGED fg_result

\* Whether thread t runs start_ardupilot (and not run_with_sitl / run_with_board alone).
InStartArdupilot(t) ==
    t = "bg" \/ fg_op \in {"start_ardupilot", "restart_ardupilot"}

----------------------------------------------------------------------------
(* The endpoint registry, as functions of the state before the call.       *)

\* The live set _reset_endpoints leaves: the snapshot; or, its error being
\* logged only, what was there when clear_endpoints raised, or the part of the
\* snapshot added before add_endpoints raised.
reset_endpoints(live, endpoints) ==
    {endpoints} \cup {live} \cup ((SUBSET endpoints) \ {endpoints})

\* reload_endpoints writing every live endpoint, persistent or not.
reload_endpoints_unfiltered(live, saved) ==
    { [cfg |-> live, saved |-> saved],
      [cfg |-> live, saved |-> live] }

\* reload_endpoints: the persistent members go to the configuration, the
\* configuration is saved and the proxy restarted; an error is logged only.
reload_endpoints(live, saved) ==
    LET persistent_endpoints == {e \in live : e.persistent}
    IN  { [cfg |-> persistent_endpoints, saved |-> saved],
          [cfg |-> persistent_endpoints, saved |-> persistent_endpoints] }

\* add_new_endpoints letting the error of a failed save reach its caller.
add_new_endpoints_raising_on_save(loaded_endpoints, cfg, saved, new_endpoints) ==
    { [live |-> loaded_endpoints \cup new_endpoints, cfg |-> r.cfg,
       saved |-> r.saved,
       raised |-> IF r.saved = r.cfg THEN "none" ELSE "EndpointError"] :
         r \in reload_endpoints(loaded_endpoints \cup new_endpoints, saved) }
    \cup
    UNION { { [live |-> l, cfg |-> cfg, saved |-> saved, raised |-> "EndpointError"] :
                l \in reset_endpoints(loaded_endpoints \cup added, loaded_endpoints) } :
            added \in (SUBSET new_endpoints) \ {new_endpoints} }

\* add_new_endpoints: the outcomes [live, cfg, saved, raised].
add_new_endpoints(loaded_endpoints, cfg, saved, new_endpoints) ==
    { [live |-> loaded_endpoints \cup new_endpoints, cfg |-> r.cfg,
       saved |-> r.saved, raised |-> "none"] :
         r \in reload_endpoints(loaded_endpoints \cup new_endpoints, saved) }
    \cup
    UNION { { [live |-> l, cfg |-> cfg, saved |-> saved, raised |-> "EndpointError"] :
                l \in reset_endpoints(loaded_endpoints \cup added, loaded_endpoints) } :
            added \in (SUBSET new_endpoints) \ {new_endpoints} }

\* remove_endpoints without its check of protected endpoints.
remove_endpoints_unchecked(loaded_endpoints, cfg, saved, endpoints_to_remove) ==
    { [live |-> loaded_endpoints \ endpoints_to_remove, cfg |-> r.cfg,
       saved |-> r.saved, raised |-> "none"] :
         r \in reload_endpoints(loaded_endpoints \ endpoints_to_remove, saved) }
    \cup
    UNION { { [live |-> l, cfg |-> cfg, saved |-> saved, raised |-> "EndpointError"] :
                l \in reset_endpoints(loaded_endpoints \ removed, loaded_endpoints) } :
            removed \in (SUBSET endpoints_to_remove) \ {endpoints_to_remove} }

\* remove_endpoints: the outcomes [live, cfg, saved, raised].
remove_endpoints(loaded_endpoints, cfg, saved, endpoints_to_remove) ==
    LET protected_endpoints == {e \in endpoints_to_remove : e.protected}
    IN  IF protected_endpoints # {}
        THEN { [live |-> loaded_endpoints, cfg |-> cfg, saved |-> saved,
                raised |-> "ValueError"] }
        ELSE { [live |-> loaded_endpoints \ endpoints_to_remove, cfg |-> r.cfg,
                saved |-> r.saved, raised |-> "none"] :
                  r \in reload_endpoints(loaded_endpoints \ endpoints_to_remove, saved) }
             \cup
             UNION { { [live |-> l, cfg |-> cfg, saved |-> saved,
                        raised |-> "EndpointError"] :
                         l \in reset_endpoints(loaded_endpoints \ removed, loaded_endpoints) } :
                     removed \in (SUBSET endpoints_to_remove) \ {endpoints_to_remove} }

\* The two add_new_endpoints calls of start_mavlink_manager inside its try:
\* the second is not reached when the first raises; the error is logged only.
default_endpoints(live, cfg, saved) ==
    UNION { IF o.raised # "none"
            THEN {o}
            ELSE add_new_endpoints(o.live, o.cfg, o.saved, {MAVLink2Rest}) :
            o \in add_new_endpoints(live, cfg, saved, {GCSLink}) }

----------------------------------------------------------------------------

\* The Manager as constructed over a new settings file: no endpoint is
\* persisted, none is loaded to the proxy; the daemon thread is started.
Init ==
    /\ current_platform = "Undefined"
    /\ current_sitl_frame = "UNDEFINED"
    /\ subprocess = 0
    /\ should_be_running = FALSE
    /\ procs = [p \in Pids |-> NoProcess]
    /\ settings_content = {}
    /\ configuration = settings_content
    /\ mav_endpoints = configuration
    /\ mav_master = {}
    /\ mav_running = FALSE
    /\ pc = [t \in Threads |-> IF t = "fg" THEN "idle" ELSE "tick"]
    /\ fg_op = "none"
    /\ fg_arg = {}
    /\ fg_result = "none"
    /\ subprocess_stopped = FALSE
    /\ polls = 0
    /\ prune_list = {}
    /\ disarmed = FALSE

----------------------------------------------------------------------------
(* The calls of the foreground caller: each is the first statement of the  *)
(* operation called.                                                       *)

Call(op, arg) ==
    /\ pc["fg"] = "idle"
    /\ fg_op' = op
    /\ fg_arg' = arg

----------------------------------------------------------------------------
(* start_ardupilot and the platform start procedures, run by either thread. *)

\* run_with_sitl recording the frame as it is given.
run_with_sitl_as_given(t, frame) ==
    /\ current_platform' = "SITL"
    /\ \/ /\ Raise(t, "FirmwareError")
          /\ UNCHANGED current_sitl_frame
       \/ /\ current_sitl_frame' = frame
          /\ Goto(t, "popen")
    /\ UNCHANGED << subprocess, should_be_running, procs, proxy, settings,
                    subprocess_stopped, kill_locals >>

\* run_with_sitl(frame) up to the spawn: the platform, the firmware, the frame.
run_with_sitl(t, frame) ==
    /\ current_platform' = "SITL"
    /\ \/ /\ Raise(t, "FirmwareError")
          /\ UNCHANGED current_sitl_frame
       \/ /\ current_sitl_frame' = IF frame = "UNDEFINED" THEN "VECTORED" ELSE frame
          /\ Goto(t, "popen")
    /\ UNCHANGED << subprocess, should_be_running, procs, proxy, settings,
                    subprocess_stopped, kill_locals >>

\* run_with_board up to its loop: check_running_as_root.
run_with_board(t) ==
    /\ \/ Raise(t, "RuntimeError")
       \/ Goto(t, "detect")
    /\ UNCHANGED << manager, procs, proxy, settings, subprocess_stopped, kill_locals >>

\* start_ardupilot setting should_be_running before the platform start.
start_ardupilot_flag_first(t) ==
    /\ should_be_running' = TRUE
    /\ \/ Raise(t, "RuntimeError")
       \/ Goto(t, "detect")
    /\ UNCHANGED << current_platform, current_sitl_frame, subprocess, procs, proxy,
                    settings, subprocess_stopped, kill_locals >>

\* start_ardupilot: run_with_sitl with the stored frame on SITL, else run_with_board.
start_ardupilot(t) ==
    IF current_platform = "SITL"
    THEN run_with_sitl(t, current_sitl_frame)
    ELSE run_with_board(t)

\* FlightControllerType's values, the key of the sort.
BoardValue(b) ==
    CASE b = "Serial" -> 1
      [] b = "Navigator" -> 2
      [] b = "NavigatorR3" -> 2
      [] b = "NavigatorR4" -> 3

\* start_board: what it runs for the detected boards.
start_board(boards) ==
    IF boards = <<>>
    THEN "none"
    ELSE LET i == Min({j \in 1..Len(boards) :
                        \A k \in 1..Len(boards) :
                            \/ BoardValue(boards[j]) < BoardValue(boards[k])
                            \/ BoardValue(boards[j]) = BoardValue(boards[k]) /\ j <= k})
             flight_controller_type == boards[i]
         IN  CASE flight_controller_type = "Navigator" -> "start_navigator"
               [] flight_controller_type = "Serial" -> "start_serial"
               [] OTHER -> "invalid"

\* start_navigator setting the platform once the firmware is there.
start_navigator_platform_last(t) ==
    \/ /\ Raise(t, "FirmwareError")
       /\ UNCHANGED current_platform
    \/ /\ current_platform' = "Navigator"
       /\ Goto(t, "popen")

\* start_navigator up to the spawn: the platform, the firmware.
start_navigator(t) ==
    /\ current_platform' = "Navigator"
    /\ \/ Raise(t, "FirmwareError")
       \/ Goto(t, "popen")

\* start_serial up to start_mavlink_manager: the platform; no process is spawned.
start_serial(t) ==
    /\ current_platform' = "Pixhawk1"
    /\ Goto(t, "start_mavlink_manager")

\* One turn of run_with_board's loop: detect, then start_board and the first
\* statements of the procedure it runs.
detect(t) ==
    /\ pc[t] = "detect"
    /\ \E boards \in DetectedBoards :
          CASE start_board(boards) = "none" ->
                 /\ Goto(t, "detect")
                 /\ UNCHANGED current_platform
            [] start_board(boards) = "start_navigator" -> start_navigator(t)
            [] start_board(boards) = "start_serial" -> start_serial(t)
            [] OTHER ->
                 /\ Raise(t, "RuntimeError")
                 /\ UNCHANGED current_platform
    /\ UNCHANGED << current_sitl_frame, subprocess, should_be_running, procs, proxy,
                    settings, caller, subprocess_stopped, kill_locals >>

\* subprocess.Popen of the firmware of the current platform: the new process
\* becomes the handle, whatever handle was held.
popen(t) ==
    /\ pc[t] = "popen"
    /\ \/ /\ FreePids # {}
          /\ LET p == Min(FreePids)
             IN  /\ procs' = Reaped([procs EXCEPT ![p] =
                                       [st |-> "alive", path |-> current_platform, by |-> t]],
                                    p, prune_list)
                 /\ subprocess' = p
          /\ Goto(t, "start_mavlink_manager")
       \/ /\ Raise(t, "OSError")
          /\ UNCHANGED << procs, subprocess >>
    /\ UNCHANGED << current_platform, current_sitl_frame, should_be_running, proxy,
                    settings, caller, subprocess_stopped, kill_locals >>

\* start_mavlink_manager letting the error of a default endpoint reach its caller.
start_mavlink_manager_raising(t) ==
    /\ pc[t] = "start_mavlink_manager"
    /\ \E o \in default_endpoints(mav_endpoints, configuration, settings_content) :
          /\ mav_endpoints' = o.live
          /\ configuration' = o.cfg
          /\ settings_content' = o.saved
          /\ IF o.raised # "none"
             THEN /\ UNCHANGED << mav_master, mav_running >>
                  /\ Raise(t, o.raised)
             ELSE /\ mav_master' = {Master}
                  /\ mav_running' = TRUE
                  /\ IF InStartArdupilot(t)
                     THEN Goto(t, "set_should_be_running")
                     ELSE Return(t)
    /\ UNCHANGED << manager, procs, caller, subprocess_stopped, kill_locals >>

\* start_mavlink_manager(device): the default endpoints, the master endpoint,
\* the start of the proxy.  Then the should_be_running = True that follows
\* its return in start_ardupilot.
start_mavlink_manager(t) ==
    /\ pc[t] = "start_mavlink_manager"
    /\ \E o \in default_endpoints(mav_endpoints, configuration, settings_content) :
          /\ mav_endpoints' = o.live
          /\ configuration' = o.cfg
          /\ settings_content' = o.saved
    /\ \/ /\ mav_master' = {Master}
          /\ mav_running' = TRUE
          /\ IF InStartArdupilot(t)
             THEN Goto(t, "set_should_be_running")
             ELSE Return(t)
       \/ /\ mav_master' = {Master}           \* mavlink_manager.start() raises
          /\ UNCHANGED mav_running
          /\ Raise(t, "ProxyError")
       \/ /\ UNCHANGED << mav_master, mav_running >>   \* set_master_endpoint raises
          /\ Raise(t, "ProxyError")
    /\ UNCHANGED << manager, procs, caller, subprocess_stopped, kill_locals >>

set_should_be_running(t) ==
    /\ pc[t] = "set_should_be_running"
    /\ should_be_running' = TRUE
    /\ Return(t)
    /\ UNCHANGED << current_platform, current_sitl_frame, subprocess, procs, proxy,
                    settings, caller, subprocess_stopped, kill_locals >>

----------------------------------------------------------------------------
(* auto_restart, the daemon thread.                                        *)

\* subprocess_stopped, the first statement of the loop.
poll_subprocess ==
    /\ pc["bg"] = "tick"
    /\ subprocess_stopped' = (subprocess # 0 /\ Exited(subprocess))
    /\ Goto("bg", "needs_restart")
    /\ UNCHANGED << manager, procs, proxy, settings, caller, kill_locals >>

\* needs_restart without its test of the platform.
needs_restart_any_platform ==
    /\ should_be_running
    /\ (running_ardupilot_processes = {} \/ subprocess_stopped)

needs_restart ==
    /\ should_be_running
    /\ current_platform \in {"SITL", "Navigator"}
    /\ (running_ardupilot_processes = {} \/ subprocess_stopped)

\* The rest of the loop: needs_restart and, when it holds, the call of
\* start_ardupilot, whose first statement is a later step; else the sleep.
auto_restart ==
    /\ pc["bg"] = "needs_restart"
    /\ IF needs_restart
       THEN Goto("bg", "start_ardupilot")
       ELSE Goto("bg", "tick")
    /\ subprocess_stopped' = FALSE
    /\ UNCHANGED << manager, procs, proxy, settings, caller, kill_locals >>

auto_restart_start ==
    /\ pc["bg"] = "start_ardupilot"
    /\ start_ardupilot("bg")
    /\ UNCHANGED caller

\* restart_ardupilot's call of start_ardupilot, after kill_ardupilot returned.
restart_start ==
    /\ pc["fg"] = "start_ardupilot"
    /\ start_ardupilot("fg")
    /\ UNCHANGED caller

----------------------------------------------------------------------------
(* kill_ardupilot and its parts, run by the foreground caller.             *)

\* The first statement of kill_ardupilot.
kill_ardupilot ==
    /\ should_be_running' = FALSE
    /\ Goto("fg", "disarm")
    /\ UNCHANGED << current_platform, current_sitl_frame, subprocess, procs, proxy,
                    settings, subprocess_stopped, kill_locals >>

\* The disarm with its test inverted: on SITL only.
disarm_vehicle_on_sitl ==
    IF current_platform = "SITL"
    THEN \/ /\ disarmed' = TRUE
            /\ Goto("fg", "terminate")
         \/ /\ disarmed' = FALSE
            /\ Raise("fg", "DisarmError")
    ELSE /\ disarmed' = FALSE
         /\ Goto("fg", "terminate")

\* The disarm of kill_ardupilot: vehicle_manager.disarm_vehicle() unless on SITL.
disarm_vehicle ==
    IF current_platform # "SITL"
    THEN \/ /\ disarmed' = TRUE
            /\ Goto("fg", "terminate")
         \/ /\ disarmed' = FALSE
            /\ Raise("fg", "DisarmError")
    ELSE /\ disarmed' = FALSE
         /\ Goto("fg", "terminate")

disarm ==
    /\ pc["fg"] = "disarm"
    /\ disarm_vehicle
    /\ UNCHANGED << manager, procs, proxy, settings, caller,
                    subprocess_stopped, polls, prune_list >>

\* Where terminate_ardupilot_subprocess returns to: its caller, or the prune
\* of kill_ardupilot.
AfterTerminate(op) ==
    IF op = "terminate_ardupilot_subprocess"
    THEN /\ Return("fg")
         /\ disarmed' = FALSE
    ELSE /\ Goto("fg", "prune")
         /\ UNCHANGED disarmed

\* terminate_ardupilot_subprocess raising when no handle is held.
terminate_raising_without_handle(op) ==
    /\ IF subprocess # 0
       THEN /\ Goto("fg", "terminate_poll")
            /\ UNCHANGED disarmed
       ELSE /\ Raise("fg", "ArdupilotProcessKillFail")
            /\ disarmed' = FALSE
    /\ UNCHANGED << manager, procs, proxy, settings, subprocess_stopped,
                    polls, prune_list >>

\* terminate_ardupilot_subprocess up to its loop: the signal, when a handle is held.
terminate_ardupilot_subprocess(op) ==
    /\ IF subprocess # 0
       THEN /\ Goto("fg", "terminate_poll")
            /\ UNCHANGED disarmed
       ELSE AfterTerminate(op)
    /\ UNCHANGED << manager, procs, proxy, settings, subprocess_stopped,
                    polls, prune_list >>

terminate ==
    /\ pc["fg"] = "terminate"
    /\ terminate_ardupilot_subprocess(fg_op)
    /\ UNCHANGED caller

\* The loop with restart_ardupilot going on to its start after the last turn.
terminate_poll_restart_goes_on ==
    /\ pc["fg"] = "terminate_poll"
    /\ IF Exited(subprocess)
       THEN /\ polls' = 0
            /\ AfterTerminate(fg_op)
       ELSE IF polls + 1 < PollAttempts
            THEN /\ polls' = polls + 1
                 /\ Goto("fg", "terminate_poll")
                 /\ UNCHANGED disarmed
            ELSE /\ polls' = 0
                 /\ disarmed' = FALSE
                 /\ IF fg_op = "restart_ardupilot"
                    THEN Goto("fg", "start_ardupilot")
                    ELSE Raise("fg", "ArdupilotProcessKillFail")
    /\ UNCHANGED << manager, procs, proxy, settings, caller,
                    subprocess_stopped, prune_list >>

\* The loop with one turn more than range(10) gives.
terminate_poll_once_more ==
    /\ pc["fg"] = "terminate_poll"
    /\ IF Exited(subprocess)
       THEN /\ polls' = 0
            /\ AfterTerminate(fg_op)
       ELSE IF polls < PollAttempts
            THEN /\ polls' = polls + 1
                 /\ Goto("fg", "terminate_poll")
                 /\ UNCHANGED disarmed
            ELSE /\ polls' = 0
                 /\ disarmed' = FALSE
                 /\ Raise("fg", "ArdupilotProcessKillFail")
    /\ UNCHANGED << manager, procs, proxy, settings, caller,
                    subprocess_stopped, prune_list >>

\* One turn of the loop: poll, and sleep; ArdupilotProcessKillFail after the last.
terminate_poll ==
    /\ pc["fg"] = "terminate_poll"
    /\ IF Exited(subprocess)
       THEN /\ polls' = 0
            /\ AfterTerminate(fg_op)
       ELSE IF polls + 1 < PollAttempts
            THEN /\ polls' = polls + 1
                 /\ Goto("fg", "terminate_poll")
                 /\ UNCHANGED disarmed
            ELSE /\ polls' = 0
                 /\ disarmed' = FALSE
                 /\ Raise("fg", "ArdupilotProcessKillFail")
    /\ UNCHANGED << manager, procs, proxy, settings, caller,
                    subprocess_stopped, prune_list >>

\* prune_ardupilot_processes: the scan its loop runs over.
prune_ardupilot_processes ==
    /\ prune_list' = running_ardupilot_processes
    /\ Goto("fg", "prune_kill")
    /\ UNCHANGED << manager, procs, proxy, settings, subprocess_stopped,
                    polls, disarmed >>

prune ==
    /\ pc["fg"] = "prune"
    /\ prune_ardupilot_processes
    /\ UNCHANGED caller

\* The loop going on to the next process when a kill fails.
prune_kill_ignoring_failure ==
    /\ pc["fg"] = "prune_kill"
    /\ IF prune_list = {}
       THEN /\ IF fg_op = "prune_ardupilot_processes"
               THEN Return("fg")
               ELSE Goto("fg", "mavlink_stop")
            /\ UNCHANGED << procs, prune_list, disarmed >>
       ELSE LET process == Min(prune_list)
            IN  \/ /\ procs[process].st = "alive"
                   /\ procs' = Reaped([procs EXCEPT ![process] = ExitedProcess],
                                      subprocess, prune_list \ {process})
                   /\ prune_list' = prune_list \ {process}
                   /\ Goto("fg", "prune_kill")
                   /\ UNCHANGED disarmed
                \/ /\ prune_list' = prune_list \ {process}
                   /\ Goto("fg", "prune_kill")
                   /\ UNCHANGED << procs, disarmed >>
    /\ UNCHANGED << manager, proxy, settings, caller, subprocess_stopped,
                    polls >>

\* One turn of the loop: kill the next process of the scan, in pid order; a
\* process that is gone, or that may not be killed, raises.
prune_kill ==
    /\ pc["fg"] = "prune_kill"
    /\ IF prune_list = {}
       THEN /\ IF fg_op = "prune_ardupilot_processes"
               THEN Return("fg")
               ELSE Goto("fg", "mavlink_stop")
            /\ UNCHANGED << procs, prune_list, disarmed >>
       ELSE LET process == Min(prune_list)
            IN  \/ /\ procs[process].st = "alive"
                   /\ procs' = Reaped([procs EXCEPT ![process] = ExitedProcess],
                                      subprocess, prune_list \ {process})
                   /\ prune_list' = prune_list \ {process}
                   /\ Goto("fg", "prune_kill")
                   /\ UNCHANGED disarmed
                \/ /\ Raise("fg", "ArdupilotProcessKillFail")
                   /\ prune_list' = {}
                   /\ disarmed' = FALSE
                   /\ procs' = Reaped(procs, subprocess, {})
    /\ UNCHANGED << manager, proxy, settings, caller, subprocess_stopped,
                    polls >>

\* mavlink_manager.stop(), the end of kill_ardupilot; restart_ardupilot goes on
\* to start_ardupilot.
mavlink_stop ==
    /\ pc["fg"] = "mavlink_stop"
    /\ \/ /\ mav_running' = FALSE
          /\ IF fg_op = "restart_ardupilot"
             THEN Goto("fg", "start_ardupilot")
             ELSE Return("fg")
       \/ /\ UNCHANGED mav_running
          /\ Raise("fg", "ProxyError")
    /\ disarmed' = FALSE
    /\ UNCHANGED << manager, procs, mav_endpoints, mav_master, settings, caller,
                    subprocess_stopped, polls, prune_list >>

----------------------------------------------------------------------------
(* The calls of the foreground caller.                                     *)

CallStartArdupilot ==
    /\ Call("start_ardupilot", {})
    /\ start_ardupilot("fg")

CallRunWithSitl ==
    \E frame \in SITLFrame :
        /\ Call("run_with_sitl", frame)
        /\ run_with_sitl("fg", frame)

\* run_with_sitl(), its frame left to the default of the signature.
CallRunWithSitlDefault ==
    /\ Call("run_with_sitl", "VECTORED")
    /\ run_with_sitl("fg", "VECTORED")

CallRunWithBoard ==
    /\ Call("run_with_board", {})
    /\ run_with_board("fg")

CallKillArdupilot ==
    /\ Call("kill_ardupilot", {})
    /\ kill_ardupilot

CallRestartArdupilot ==
    /\ Call("restart_ardupilot", {})
    /\ kill_ardupilot

CallTerminate ==
    /\ Call("terminate_ardupilot_subprocess", {})
    /\ terminate_ardupilot_subprocess("terminate_ardupilot_subprocess")

CallPrune ==
    /\ Call("prune_ardupilot_processes", {})
    /\ prune_ardupilot_processes

\* start_board(boards), with the first statements of the procedure it runs;
\* it returns False for the empty list.
CallStartBoard ==
    \E boards \in BoardLists :
        /\ Call("start_board", boards)
        /\ CASE start_board(boards) = "none" ->
                 /\ pc' = pc
                 /\ fg_result' = "False"
                 /\ UNCHANGED current_platform
            [] start_board(boards) = "start_navigator" -> start_navigator("fg")
            [] start_board(boards) = "start_serial" -> start_serial("fg")
            [] OTHER ->
                 /\ Raise("fg", "RuntimeError")
                 /\ UNCHANGED current_platform
        /\ UNCHANGED << current_sitl_frame, subprocess, should_be_running, procs,
                        proxy, settings, subprocess_stopped, kill_locals >>

\* add_new_endpoints(new_endpoints), from the call to its return or raise.
CallAddNewEndpoints ==
    \E new_endpoints \in EndpointSets :
        /\ Call("add_new_endpoints", new_endpoints)
        /\ \E o \in add_new_endpoints(mav_endpoints, configuration, settings_content,
                                      new_endpoints) :
              /\ mav_endpoints' = o.live
              /\ configuration' = o.cfg
              /\ settings_content' = o.saved
              /\ IF o.raised = "none" THEN Return("fg") ELSE Raise("fg", o.raised)
        /\ UNCHANGED << manager, procs, mav_master, mav_running,
                        subprocess_stopped, kill_locals >>

\* remove_endpoints(endpoints_to_remove), from the call to its return or raise.
CallRemoveEndpoints ==
    \E endpoints_to_remove \in EndpointSets :
        /\ Call("remove_endpoints", endpoints_to_remove)
        /\ \E o \in remove_endpoints(mav_endpoints, configuration, settings_content,
                                     endpoints_to_remove) :
              /\ mav_endpoints' = o.live
              /\ configuration' = o.cfg
              /\ settings_content' = o.saved
              /\ IF o.raised = "none" THEN Return("fg") ELSE Raise("fg", o.raised)
        /\ UNCHANGED << manager, procs, mav_master, mav_running,
                        subprocess_stopped, kill_locals >>

----------------------------------------------------------------------------
(* The operating system: a process exits; an autopilot process forks one   *)
(* with the same command line (its reboot handling).                       *)

ProcessExits ==
    /\ \E p \in Alive :
          procs' = Reaped([procs EXCEPT ![p] = ExitedProcess], subprocess, prune_list)
    /\ UNCHANGED << manager, proxy, settings, pc, fg_result, caller,
                    subprocess_stopped, kill_locals >>

ProcessForks ==
    /\ FreePids # {}
    /\ \E p \in Alive :
          procs' = [procs EXCEPT ![Min(FreePids)] =
                      [st |-> "alive", path |-> procs[p].path, by |-> "stray"]]
    /\ UNCHANGED << manager, proxy, settings, pc, fg_result, caller,
                    subprocess_stopped, kill_locals >>

----------------------------------------------------------------------------

\* The steps of a platform start, by either thread.
Start(t) ==
    \/ detect(t)
    \/ popen(t)
    \/ start_mavlink_manager(t)
    \/ set_should_be_running(t)

\* The steps of kill_ardupilot after its first.
Kill ==
    \/ disarm
    \/ terminate
    \/ terminate_poll
    \/ prune
    \/ prune_kill
    \/ mavlink_stop

\* The supervisor under concurrency: start, stop and restart by the caller,
\* the daemon thread, the operating system.
Next ==
    \/ CallStartArdupilot
    \/ CallRunWithSitlDefault
    \/ CallRunWithBoard
    \/ CallKillArdupilot
    \/ CallRestartArdupilot
    \/ \E t \in Threads : Start(t)
    \/ restart_start
    \/ poll_subprocess
    \/ auto_restart
    \/ auto_restart_start
    \/ Kill
    \/ ProcessExits
    \/ ProcessForks

Spec == Init /\ [][Next]_vars

\* The supervisor as its caller sees it, one call after the other, with the
\* daemon thread left out.
NextCaller ==
    \/ CallStartArdupilot
    \/ CallRunWithSitl
    \/ CallRunWithBoard
    \/ CallKillArdupilot
    \/ CallRestartArdupilot
    \/ CallTerminate
    \/ CallPrune
    \/ Start("fg")
    \/ restart_start
    \/ Kill
    \/ ProcessExits
    \/ ProcessForks

SpecCaller == Init /\ [][NextCaller]_vars

\* The endpoint registry: the caller's endpoint operations, and run_with_sitl
\* for the default endpoints of start_mavlink_manager.
NextRegistry ==
    \/ CallAddNewEndpoints
    \/ CallRemoveEndpoints
    \/ CallRunWithSitl
    \/ popen("fg")
    \/ start_mavlink_manager("fg")

SpecRegistry == Init /\ [][NextRegistry]_vars

\* start_board called with every list of boards, and the start it runs.
NextBoard ==
    \/ CallStartBoard
    \/ popen("fg")
    \/ start_mavlink_manager("fg")
    \/ ProcessExits

SpecBoard == Init /\ [][NextBoard]_vars

----------------------------------------------------------------------------
(* Properties.                                                             *)

KillOps == {"kill_ardupilot", "restart_ardupilot"}

\* The caller is back from the call of op with the given result.
Returned(op, result) ==
    /\ pc["fg"] = "idle"
    /\ fg_op = op
    /\ fg_result = result

\* C1: an add_new_endpoints call that raises because the proxy refused an
\* endpoint leaves the live set as it was before the call.
C1_AddRollsBack ==
    [][ (CallAddNewEndpoints /\ fg_result' = "EndpointError")
          => mav_endpoints' = mav_endpoints ]_vars

\* C2: a remove_endpoints call whose argument holds a protected endpoint raises
\* and leaves the live set, the proxy and the configuration as they were.
C2_ProtectedNotRemoved ==
    [][ (CallRemoveEndpoints /\ \E e \in fg_arg' : e.protected)
          => /\ fg_result' = "ValueError"
             /\ UNCHANGED << mav_endpoints, mav_master, mav_running,
                             configuration, settings_content >> ]_vars

\* C2's case: the call with a protected and an unprotected live endpoint raised,
\* and both are still live.
C2_Witness ==
    /\ Returned("remove_endpoints", "ValueError")
    /\ fg_arg = {GCSLink, UserB}
    /\ fg_arg \subseteq mav_endpoints

\* C3: when restart_ardupilot reaches start_ardupilot, no process with the
\* firmware path of the current platform exists.
C3_RestartStartsClean ==
    pc["fg"] = "start_ardupilot" => running_ardupilot_processes = {}

\* C4: never are a process spawned by the daemon thread and a process spawned
\* by the caller alive together.
C4_NoDoubleStart ==
    ~ \E p, q \in Alive : procs[p].by = "bg" /\ procs[q].by = "fg"

\* C5: auto_restart does not go on to start_ardupilot on a tick that finds
\* should_be_running false; and once kill_ardupilot has returned, as long as
\* the caller calls nothing, no process is spawned and should_be_running
\* stays false.
C5_NoRestartAfterStop ==
    [][ /\ (auto_restart /\ ~should_be_running) => pc'["bg"] # "start_ardupilot"
        /\ (Returned("kill_ardupilot", "ok") /\ pc'["fg"] = "idle" /\ fg_op' = fg_op)
             => /\ ~should_be_running'
                /\ SpawnedAlive' \subseteq SpawnedAlive ]_vars

\* C6: a tick of auto_restart that finds a platform other than SITL and
\* Navigator does not go on to start_ardupilot.
C6_UnsupervisedNotRestarted ==
    [][ (auto_restart /\ current_platform \notin {"SITL", "Navigator"})
          => pc'["bg"] = "tick" ]_vars

\* C6's case: a tick on Pixhawk1 with should_be_running set and the handle exited.
C6_Witness ==
    /\ pc["bg"] = "needs_restart"
    /\ current_platform = "Pixhawk1"
    /\ should_be_running
    /\ subprocess_stopped

\* C7: the loop of auto_restart never ends.
C7_LoopSurvives ==
    pc["bg"] # "dead"

\* C8: at most one process spawned by the Manager is alive.
C8_AtMostOneSpawned ==
    Cardinality(SpawnedAlive) <= 1

\* C9: terminate_ardupilot_subprocess with no handle held returns without raising
\* and changes nothing, called by kill_ardupilot or by the caller itself.
C9_TerminateWithoutHandle ==
    [][ ((CallTerminate \/ terminate) /\ subprocess = 0)
          => /\ pc'["fg"] = IF fg_op' = "terminate_ardupilot_subprocess"
                            THEN "idle" ELSE "prune"
             /\ fg_result' = IF fg_op' = "terminate_ardupilot_subprocess"
                             THEN "ok" ELSE "running"
             /\ UNCHANGED << manager, procs, proxy, settings >> ]_vars

\* C9's case: the call returned on a Pixhawk1, where no process is ever spawned
\* and so no handle is held.
C9_Witness ==
    /\ Returned("terminate_ardupilot_subprocess", "ok")
    /\ subprocess = 0
    /\ current_platform = "Pixhawk1"

\* C10: in kill_ardupilot, when the termination signal is about to be sent or
\* was sent, disarm_vehicle has returned if the platform is not SITL, and was
\* not called if it is.
C10_DisarmBeforeTerminate ==
    (fg_op \in KillOps /\ pc["fg"] \in {"terminate", "terminate_poll"})
      => (disarmed <=> current_platform # "SITL")

\* C10's case: the signal was sent to the process of a Navigator, disarmed before.
C10_Witness ==
    /\ fg_op \in KillOps
    /\ pc["fg"] = "terminate_poll"
    /\ current_platform = "Navigator"
    /\ subprocess \in Alive
    /\ disarmed

\* The smallest priority value among the boards of a non-empty list.
LowestValue(boards) ==
    Min({BoardValue(boards[j]) : j \in 1..Len(boards)})

\* C11: start_board returns False for the empty list and leaves the platform;
\* for any other list it runs start_serial when the board of smallest value
\* is Serial and start_navigator when it is of the Navigator class, seen by the
\* platform each sets first.
C11_BoardSelection ==
    [][ CallStartBoard
          => IF fg_arg' = <<>>
             THEN /\ fg_result' = "False"
                  /\ pc'["fg"] = "idle"
                  /\ UNCHANGED current_platform
             ELSE /\ fg_result' # "False"
                  /\ current_platform' = IF LowestValue(fg_arg') = BoardValue("Serial")
                                         THEN "Pixhawk1"
                                         ELSE "Navigator" ]_vars

\* C12: when run_with_sitl reaches its spawn, current_sitl_frame is the frame
\* it was given, VECTORED standing for UNDEFINED: the frame of the call, or the
\* stored frame when start_ardupilot makes the call; so it is not UNDEFINED.
C12_SitlFrameDefault ==
    [][ \A t \in Threads :
          (pc[t] # "popen" /\ pc'[t] = "popen" /\ current_platform' = "SITL")
            => LET frame == IF t = "fg" /\ fg_op' = "run_with_sitl"
                            THEN fg_arg'
                            ELSE current_sitl_frame
               IN  /\ current_sitl_frame' = IF frame = "UNDEFINED" THEN "VECTORED"
                                                                  ELSE frame
                   /\ current_sitl_frame' # "UNDEFINED" ]_vars

\* C12's case: run_with_sitl(UNDEFINED) is at its spawn with VECTORED recorded.
C12_Witness ==
    /\ pc["fg"] = "popen"
    /\ fg_op = "run_with_sitl"
    /\ fg_arg = "UNDEFINED"
    /\ current_sitl_frame = "VECTORED"
    /\ current_platform = "SITL"

\* C13: a remove_endpoints call that raises because the proxy refused a removal
\* leaves the live set as it was before the call, and the configuration and
\* the saved settings unwritten.
C13_RemoveRollsBack ==
    [][ (CallRemoveEndpoints /\ fg_result' = "EndpointError")
          => /\ mav_endpoints' = mav_endpoints
             /\ UNCHANGED << configuration, settings_content >> ]_vars

\* C14: with a handle held, terminate_ardupilot_subprocess sends its signal once
\* and enters its loop with no check made; each check that finds the process
\* exited returns; one that does not is followed by the next check, unless it
\* was the tenth, which raises ArdupilotProcessKillFail; the signal is not sent
\* again and no check is made beyond the tenth.
C14_BoundedTermination ==
    [][ /\ (pc["fg"] # "terminate_poll" /\ pc'["fg"] = "terminate_poll")
             => /\ subprocess # 0
                /\ polls' = 0
                /\ pc["fg"] \in {"idle", "terminate"}
        /\ (pc["fg"] = "terminate_poll" /\ << pc, polls >>' # << pc, polls >>)
             => /\ polls < PollAttempts
                /\ IF Exited(subprocess)
                   THEN /\ pc'["fg"] \in {"idle", "prune"}
                        /\ fg_result' \in {"ok", "running"}
                   ELSE IF polls + 1 < PollAttempts
                        THEN /\ pc'["fg"] = "terminate_poll"
                             /\ polls' = polls + 1
                        ELSE /\ pc'["fg"] = "idle"
                             /\ fg_result' = "ArdupilotProcessKillFail" ]_vars

\* C14's case: the call raised after its ten checks, the process still alive.
C14_Witness ==
    /\ Returned("terminate_ardupilot_subprocess", "ArdupilotProcessKillFail")
    /\ subprocess \in Alive

\* C15: prune_ardupilot_processes scans the processes of the current platform's
\* firmware path, the handle's process included when an earlier terminate
\* timed out on it; each turn of its loop kills one process of the scan, or
\* raises ArdupilotProcessKillFail and kills nothing more; it returns only
\* when none of the scan is left to kill.
C15_PruneKillsOrRaises ==
    [][ /\ (pc["fg"] # "prune_kill" /\ pc'["fg"] = "prune_kill")
             => prune_list' = running_ardupilot_processes
        /\ (pc["fg"] = "prune_kill" /\ << pc, prune_list >>' # << pc, prune_list >>)
             => IF prune_list = {}
                THEN /\ pc'["fg"] \in {"idle", "mavlink_stop"}
                     /\ fg_result' \in {"ok", "running"}
                     /\ Alive' = Alive
                ELSE \/ \E process \in prune_list :
                           /\ process \in Alive
                           /\ Alive' = Alive \ {process}
                           /\ prune_list' = prune_list \ {process}
                           /\ pc'["fg"] = "prune_kill"
                     \/ /\ pc'["fg"] = "idle"
                        /\ fg_result' = "ArdupilotProcessKillFail"
                        /\ Alive' = Alive ]_vars

\* C15's case: the scan of a prune called by itself holds the handle's process,
\* which no terminate has ended, and a second match.
C15_Witness ==
    /\ pc["fg"] = "prune_kill"
    /\ fg_op = "prune_ardupilot_processes"
    /\ subprocess \in prune_list
    /\ Cardinality(prune_list) = 2
    /\ prune_list \subseteq Alive

\* The errors of a platform start after its first statement: the firmware
\* install, the spawn, the proxy.
StartErrors == {"FirmwareError", "OSError", "ProxyError"}

\* C16: when a platform start raises after its first statement, the caller gets
\* the error and current_platform is the platform of the procedure that ran:
\* SITL for run_with_sitl, Navigator when the firmware install of start_navigator
\* raised, and as set before when the spawn or the proxy raised; never Undefined.
C16_PlatformKept ==
    [][ ( /\ pc["fg"] \in {"idle", "start_ardupilot", "detect", "popen",
                           "start_mavlink_manager"}
          /\ pc'["fg"] = "idle"
          /\ fg_op' \in {"run_with_sitl", "run_with_board", "start_ardupilot",
                         "restart_ardupilot"}
          /\ fg_result' \in StartErrors )
          => /\ current_platform' # "Undefined"
             /\ fg_op' = "run_with_sitl" => current_platform' = "SITL"
             /\ pc["fg"] = "detect" => current_platform' = "Navigator"
             /\ pc["fg"] = "start_ardupilot" => current_platform' = "SITL"
             /\ pc["fg"] \in {"popen", "start_mavlink_manager"}
                  => current_platform' = current_platform
             /\ fg_result' = "OSError" => current_platform' \in {"SITL", "Navigator"} ]_vars

\* C16's case: the first start found a Navigator and its spawn raised.
C16_Witness ==
    /\ Returned("start_ardupilot", "OSError")
    /\ current_platform = "Navigator"
    /\ subprocess = 0

\* The live set a call of add_new_endpoints / remove_endpoints asks for.
Mutation(op, live, arg) ==
    IF op = "add_new_endpoints" THEN live \cup arg ELSE live \ arg

\* C17: only the refusal of an endpoint or a protected endpoint makes
\* add_new_endpoints / remove_endpoints raise; once the configuration or the
\* saved settings are written the call returns normally, whether the save and
\* the restart of the proxy went through or not, with the asked-for live set.
C17_PersistenceAdvisory ==
    [][ (CallAddNewEndpoints \/ CallRemoveEndpoints)
          => /\ fg_result' \in {"ok", "EndpointError", "ValueError"}
             /\ (configuration' # configuration \/ settings_content' # settings_content)
                  => fg_result' = "ok"
             /\ fg_result' = "ok"
                  => mav_endpoints' = Mutation(fg_op', mav_endpoints, fg_arg') ]_vars

\* C17's case: add_new_endpoints returned with the persistent UserA live and in
\* the configuration, the save having failed.
C17_Witness ==
    /\ Returned("add_new_endpoints", "ok")
    /\ UserA \in fg_arg
    /\ UserA \in mav_endpoints
    /\ UserA \in configuration
    /\ UserA \notin settings_content

\* C18: after an add_new_endpoints / remove_endpoints call that returns, the
\* configuration holds exactly the persistent members of the live set, and the
\* saved settings hold the same when the save went through, else what they
\* held; a call that raises leaves the configuration and the saved settings.
C18_PersistentSubset ==
    [][ (CallAddNewEndpoints \/ CallRemoveEndpoints)
          => IF fg_result' = "ok"
             THEN /\ configuration' = {e \in mav_endpoints' : e.persistent}
                  /\ settings_content' \in {configuration', settings_content}
             ELSE UNCHANGED << configuration, settings_content >> ]_vars

\* C18's case: a call returned and saved, with a persistent and a
\* non-persistent endpoint live and only the persistent one written.
C18_Witness ==
    /\ pc["fg"] = "idle"
    /\ fg_op \in {"add_new_endpoints", "remove_endpoints"}
    /\ fg_result = "ok"
    /\ {UserA, UserB} \subseteq mav_endpoints
    /\ configuration = {UserA}
    /\ settings_content = {UserA}

C20_ShouldBeRunningSetLast ==
    /\ ~should_be_running
    /\ [][ /\ (should_be_running' /\ ~should_be_running)
                => \E t \in Threads :
                      /\ pc[t] = "set_should_be_running"
                      /\ pc'[t] = IF t = "fg" THEN "idle" ELSE "tick"
                      /\ t = "fg" => fg_result' = "ok"
           /\ (~should_be_running' /\ should_be_running)
                => /\ pc["fg"] = "idle"
                   /\ pc'["fg"] = "disarm"
                   /\ fg_op' \in KillOps ]_vars

\* C20's case: a start_ardupilot of the caller raised at its firmware install
\* and should_be_running is true as before.
C20_Witness ==
    /\ Returned("start_ardupilot", "FirmwareError")
    /\ should_be_running
    /\ pc["bg"] = "tick"

\* C21: start_mavlink_manager ends with the master endpoint set and the proxy
\* started, or with an error of the proxy's set_master_endpoint / start: never
\* with the error of a default endpoint, whichever of them is missing from the
\* live set afterwards; and MAVLink2Rest is added only after GCS Link was.
C21_DefaultEndpointsAdvisory ==
    [][ (pc["fg"] = "start_mavlink_manager" /\ pc'["fg"] # "start_mavlink_manager")
          => /\ fg_result' \in {"ok", "running", "ProxyError"}
             /\ fg_result' # "ProxyError" => (mav_master' = {Master} /\ mav_running')
             /\ (MAVLink2Rest \in mav_endpoints' \ mav_endpoints)
                  => GCSLink \in mav_endpoints' ]_vars

\* C21's case: run_with_sitl returned with the proxy started on its master
\* endpoint and neither default endpoint live.
C21_Witness ==
    /\ Returned("run_with_sitl", "ok")
    /\ mav_running
    /\ mav_master = {Master}
    /\ GCSLink \notin mav_endpoints
    /\ MAVLink2Rest \notin mav_endpoints

====
